---- MODULE Spec2Model ----
(***************************************************************************)
(* Dance Companion: the two entry points (dance_companion.py main() and    *)
(* the app.py script), the VideoSource wrapper and the PoseVisualizer      *)
(* (mirror transform, skeleton renderer, compositor).                      *)
(*                                                                         *)
(* Images are records [h, w, px] with px a function from <<row, col>> to   *)
(* a <<b, g, r>> triple of 8-bit channels.  A normalized landmark is a     *)
(* record [x, y] of numerators over the common denominator Den, so that    *)
(* lm.x = x / Den exactly (MediaPipe's float32 values are dyadic           *)
(* rationals and lm.x * w is exact in double precision for frame widths).  *)
(***************************************************************************)
EXTENDS Integers, Sequences, FiniteSets, TLC

VARIABLES
    entry,              \* "cli" (dance_companion.py), "app" (app.py), "lib" (visualizer alone)
    cfg,                \* the PoseVisualizer's attributes
    pc,                 \* position in the entry point
    video_source,       \* "unbound" | "open" | "released"
    windows,            \* "none" | "open" | "closed"
    frame,              \* the frame of the last successful read
    pose_results,       \* [found, landmark]: pose_results.pose_landmarks
    mirrored_landmarks, \* idx -> <<mirror_x, y>>
    drawn,              \* the cv2.circle / cv2.line calls of the last render
    replica,            \* the rendered canvas
    composite,          \* the last composite image
    shown,              \* history of cv2.imshow calls
    console,            \* history of printed messages
    exc,                \* the last exception raised ("none" when none)
    event,              \* <<step, outcome, key>> of the last step taken
    readCalls,          \* calls of read_frame
    reads,              \* calls of read_frame that returned a frame
    detections,         \* calls of detect_landmarks
    renders,            \* calls of draw_mirrored_pose
    releases            \* calls of cap.release()

vars == <<entry, cfg, pc, video_source, windows, frame, pose_results,
          mirrored_landmarks, drawn, replica, composite, shown, console,
          exc, event, readCalls, reads, detections, renders, releases>>

----------------------------------------------------------------------------
(* Bounds of the model *)

\* frames a source delivers before it is exhausted
MaxFrames == 2
\* landmarks in one detection result
MaxLandmarks == 2
\* denominator of the normalized coordinates
Den == 4

(* Program constants *)

DefaultOffset == 150
DefaultRadius == 3
DefaultThickness == 2
KeyMask == 255
OrdQ == 113
MaxChannel == 255

----------------------------------------------------------------------------
(* Values *)

Min(a, b) == IF a <= b THEN a ELSE b

Black == <<0, 0, 0>>
DefaultLandmarkColor == <<255, 0, 0>>
DefaultConnectionColor == <<0, 0, 255>>

Pixels(h, w) == (0 .. h - 1) \X (0 .. w - 1)

NoImage == [h |-> 0, w |-> 0, px |-> [p \in Pixels(0, 0) |-> Black]]

NoPose == [found |-> FALSE, landmark |-> <<>>]

\* PoseVisualizer.__init__
PoseVisualizerInit(landmark_color, connection_color, circle_radius, line_thickness, offset_x) ==
    [landmark_color |-> landmark_color, connection_color |-> connection_color,
     circle_radius |-> circle_radius, line_thickness |-> line_thickness,
     offset_x |-> offset_x]

\* app.py constructs the visualizer with literal arguments
AppConfig ==
    PoseVisualizerInit(<<255, 0, 0>>, <<0, 0, 255>>, 3, 2, 150)

\* dance_companion.py: --radius, --thickness, --offset from the command line
CliConfigs ==
    { PoseVisualizerInit(DefaultLandmarkColor, DefaultConnectionColor, r, t, o) :
        <<r, t, o>> \in { <<DefaultRadius, DefaultThickness, DefaultOffset>>,
                          <<0, 1, 0>>, <<1, 1, 1>> } }

\* mp_pose.POSE_CONNECTIONS, in its iteration order, scaled to MaxLandmarks + 2 indices
PoseConnections ==
    [i \in 1 .. MaxLandmarks + 1 |-> <<i - 1, i>>] \o << <<0, 2>> >>

\* int(): truncation toward zero of n / d, d > 0
IntTrunc(n, d) == IF n >= 0 THEN n \div d ELSE -((-n) \div d)

----------------------------------------------------------------------------
(* PoseVisualizer *)

\* variant: the mirrored x clamped into the frame's columns
MirrorXClamped(lm, w, offset_x) ==
    LET x == IntTrunc(lm.x * w, Den)
        m == w - x + offset_x
    IN  IF m < 0 THEN 0 ELSE Min(w - 1, m)

\* variant: the reflected value w - lm.x * w truncated, instead of lm.x * w
MirrorXTruncReflected(lm, w, offset_x) ==
    IntTrunc(w * Den - lm.x * w, Den) + offset_x

\* the mirrored x of one landmark
MirrorX(lm, w, offset_x) ==
    LET x == IntTrunc(lm.x * w, Den)
    IN  w - x + offset_x

\* the y of one landmark
PixelY(lm, h) == IntTrunc(lm.y * h, Den)

\* variant: indices counted from 1 while the list is read from 0
MirrorIndicesFromOne(landmark) == 1 .. Len(landmark) - 1

\* the indices enumerate() yields for a landmark list
MirrorIndices(landmark) == 0 .. Len(landmark) - 1

create_mirrored_landmarks(landmark, h, w, c) ==
    [idx \in MirrorIndices(landmark) |->
        <<MirrorX(landmark[idx + 1], w, c.offset_x), PixelY(landmark[idx + 1], h)>>]

\* np.zeros_like(frame)
ZerosLike(img) == [h |-> img.h, w |-> img.w, px |-> [p \in Pixels(img.h, img.w) |-> Black]]

\* the pixels cv2.circle(img, center, radius, color, -1) writes (clipped to the image)
CirclePixels(img, center, radius) ==
    { p \in Pixels(img.h, img.w) :
        (p[2] - center[1]) * (p[2] - center[1]) + (p[1] - center[2]) * (p[1] - center[2])
            <= radius * radius }

\* the pixels cv2.line(img, a, b, color, thickness) writes (clipped to the image)
LinePixels(img, a, b, thickness) ==
    { p \in Pixels(img.h, img.w) :
        LET ux == p[2] - a[1]
            uy == p[1] - a[2]
            dx == b[1] - a[1]
            dy == b[2] - a[2]
            dd == dx * dx + dy * dy
            dot == ux * dx + uy * dy
            cr == ux * dy - uy * dx
        IN  IF dd = 0
            THEN 4 * (ux * ux + uy * uy) <= thickness * thickness
            ELSE /\ dot >= 0
                 /\ dot <= dd
                 /\ 4 * cr * cr <= thickness * thickness * dd }

Paint(img, pixels, color) ==
    [img EXCEPT !.px = [p \in Pixels(img.h, img.w) |->
                            IF p \in pixels THEN color ELSE img.px[p]]]

\* variant: the first connection of the topology is never drawn
DrawnConnectionsSkipFirst(mirrored, connections) ==
    LET Both(conn) == conn[1] \in DOMAIN mirrored /\ conn[2] \in DOMAIN mirrored
    IN  SelectSeq(Tail(connections), Both)

\* the connections draw_mirrored_pose draws a line for, in iteration order
DrawnConnections(mirrored, connections) ==
    LET Both(conn) == conn[1] \in DOMAIN mirrored /\ conn[2] \in DOMAIN mirrored
    IN  SelectSeq(connections, Both)

\* the drawing calls of draw_mirrored_pose, in call order
DrawCalls(mirrored, connections, c) ==
    LET n == Cardinality(DOMAIN mirrored)
        lines == DrawnConnections(mirrored, connections)
    IN  [i \in 1 .. n |->
            [op |-> "circle", at |-> mirrored[i - 1], to |-> mirrored[i - 1],
             idx |-> <<i - 1, i - 1>>]]
        \o
        [i \in 1 .. Len(lines) |->
            [op |-> "line", at |-> mirrored[lines[i][1]], to |-> mirrored[lines[i][2]],
             idx |-> lines[i]]]

RECURSIVE Rasterize(_, _, _)
Rasterize(img, calls, c) ==
    IF calls = <<>> THEN img
    ELSE LET call == Head(calls)
             next == IF call.op = "circle"
                     THEN Paint(img, CirclePixels(img, call.at, c.circle_radius),
                                c.landmark_color)
                     ELSE Paint(img, LinePixels(img, call.at, call.to, c.line_thickness),
                                c.connection_color)
         IN  Rasterize(next, Tail(calls), c)

draw_mirrored_pose(img, mirrored, connections, c) ==
    Rasterize(ZerosLike(img), DrawCalls(mirrored, connections, c), c)

\* variant: numpy's frame + replica, which wraps modulo 256
AddChannelWrap(a, b) == (a + b) % (MaxChannel + 1)

\* cv2.add on one 8-bit channel
AddChannel(a, b) == Min(MaxChannel, a + b)

create_composite(img, canvas) ==
    [h |-> img.h, w |-> img.w,
     px |-> [p \in Pixels(img.h, img.w) |->
                [ch \in 1 .. 3 |-> AddChannel(img.px[p][ch], canvas.px[p][ch])]]]

----------------------------------------------------------------------------
(* Inputs *)

\* a 2 x 3 frame whose colour varies with the position
GradientFrame ==
    [h |-> 2, w |-> 3,
     px |-> [p \in Pixels(2, 3) |-> <<(p[2] * 100) % 256, 255 - p[1] * 100, 7>>]]

\* a 3 x 4 frame of one bright colour
BrightFrame ==
    [h |-> 3, w |-> 4, px |-> [p \in Pixels(3, 4) |-> <<200, 0, 255>>]]

\* the frames a source can deliver
Frames == { GradientFrame, BrightFrame }

\* numerators of normalized coordinates (x may leave [0, 1])
XNums == { -1, 0, 1, Den - 1, Den, Den + 1 }
YNums == { 1, Den }

Landmarks == [x : XNums, y : YNums]

LandmarkLists == UNION { [1 .. n -> Landmarks] : n \in 0 .. MaxLandmarks }

\* what pose.process can return: no pose, or a landmark list
DetectionResults ==
    { NoPose } \cup { [found |-> TRUE, landmark |-> l] : l \in LandmarkLists }

\* the results the loop is run against: no pose, or the first n landmarks
\* of one pose, for every n up to MaxLandmarks
LoopResults ==
    { NoPose } \cup
    { [found |-> TRUE,
       landmark |-> [i \in 1 .. n |->
                        IF i % 2 = 1 THEN [x |-> Den - 1, y |-> 1]
                                     ELSE [x |-> Den, y |-> Den]]] :
        n \in 0 .. MaxLandmarks }

\* cv2.waitKey: -1 when no key was pressed within the wait budget
Keys == { -1, OrdQ, OrdQ + 256, 81 }

----------------------------------------------------------------------------
(* Entry points *)

StartupPcs == { "open", "detector", "window" }
LoopPcs == { "read", "detect", "mirror", "render", "composite", "show", "poll" }
TerminalPcs == { "exit", "crashed" }

\* the statement after a startup statement
AfterStartup(e, at) ==
    IF e = "cli"
    THEN CASE at = "open" -> "detector"
           [] at = "detector" -> "window"
           [] OTHER -> "read"
    ELSE CASE at = "detector" -> "open"
           [] OTHER -> "read"

\* where a break of the loop leads
AfterLoop(e) == IF e = "cli" THEN "finally" ELSE "cleanup"

\* variant: the exception is swallowed inside the loop, which goes on
HandlerContinue(e) == "read"

\* where an exception raised inside the entry point leads: main() wraps
\* everything in try/except Exception/finally, app.py has no handler
Handler(e) == IF e = "cli" THEN "except" ELSE "crashed"

\* (key & 0xFF) == ord('q')
CancelKeyPressed(key) == (key % (KeyMask + 1)) = OrdQ

\* variant: the composite is shown whether or not landmarks were found
ImageToShowAlwaysComposite(results, comp, img) == comp

\* what imshow is given
ImageToShow(results, comp, img) == IF results.found THEN comp ELSE img

Raise(e, step) ==
    /\ pc' = Handler(entry)
    /\ exc' = e
    /\ event' = <<step, "error", -1>>
    /\ console' = IF entry = "cli" THEN console
                  ELSE Append(console, [kind |-> "Traceback", text |-> e])

Ok(step) ==
    /\ exc' = exc
    /\ event' = <<step, "ok", -1>>
    /\ console' = console

Init ==
    /\ entry \in { "cli", "app" }
    /\ cfg \in IF entry = "cli" THEN CliConfigs ELSE { AppConfig }
    /\ pc = IF entry = "cli" THEN "open" ELSE "detector"
    /\ video_source = "unbound"
    /\ windows = "none"
    /\ frame = NoImage
    /\ pose_results = NoPose
    /\ mirrored_landmarks = create_mirrored_landmarks(<<>>, 0, 0, cfg)
    /\ drawn = <<>>
    /\ replica = NoImage
    /\ composite = NoImage
    /\ shown = <<>>
    /\ console = <<>>
    /\ exc = "none"
    /\ event = <<"start", "ok", -1>>
    /\ readCalls = 0
    /\ reads = 0
    /\ detections = 0
    /\ renders = 0
    /\ releases = 0

\* VideoSource.__init__
OpenSource ==
    /\ pc = "open"
    /\ \E opened \in BOOLEAN :
        IF opened
        THEN /\ video_source' = "open"
             /\ pc' = AfterStartup(entry, "open")
             /\ Ok("open")
        ELSE /\ video_source' = video_source
             /\ Raise("ValueError", "open")
    /\ UNCHANGED <<entry, cfg, windows, frame, pose_results, mirrored_landmarks, drawn,
                   replica, composite, shown, readCalls, reads, detections, renders,
                   releases>>

\* PoseDetector() (and PoseVisualizer(), which only stores its arguments)
InitDetector ==
    /\ pc = "detector"
    /\ \/ /\ pc' = AfterStartup(entry, "detector")
          /\ Ok("detector")
       \/ Raise("Exception", "detector")
    /\ UNCHANGED <<entry, cfg, video_source, windows, frame, pose_results,
                   mirrored_landmarks, drawn, replica, composite, shown, readCalls,
                   reads, detections, renders, releases>>

\* cv2.namedWindow (dance_companion.py only)
CreateWindow ==
    /\ pc = "window"
    /\ \/ /\ pc' = AfterStartup(entry, "window")
          /\ windows' = "open"
          /\ Ok("window")
       \/ /\ windows' = windows
          /\ Raise("Exception", "window")
    /\ UNCHANGED <<entry, cfg, video_source, frame, pose_results, mirrored_landmarks,
                   drawn, replica, composite, shown, readCalls, reads, detections,
                   renders, releases>>

\* ret, frame = video_source.read_frame(); if not ret: break
ReadFrame ==
    /\ pc = "read"
    /\ readCalls' = readCalls + 1
    /\ \/ /\ reads < MaxFrames
          /\ \E f \in Frames : frame' = f
          /\ reads' = reads + 1
          /\ pc' = "detect"
          /\ Ok("read")
       \/ /\ pc' = AfterLoop(entry)
          /\ exc' = exc
          /\ console' = console
          /\ event' = <<"read", "noframe", -1>>
          /\ UNCHANGED <<frame, reads>>
       \/ /\ Raise("Exception", "read")
          /\ UNCHANGED <<frame, reads>>
    /\ UNCHANGED <<entry, cfg, video_source, windows, pose_results, mirrored_landmarks,
                   drawn, replica, composite, shown, detections, renders, releases>>

\* pose_results = pose_detector.detect_landmarks(frame); if pose_results.pose_landmarks
Detect ==
    /\ pc = "detect"
    /\ detections' = detections + 1
    /\ \/ /\ \E r \in LoopResults : pose_results' = r
          /\ pc' = IF pose_results'.found THEN "mirror" ELSE "show"
          /\ Ok("detect")
       \/ /\ pose_results' = pose_results
          /\ Raise("Exception", "detect")
    /\ UNCHANGED <<entry, cfg, video_source, windows, frame, mirrored_landmarks, drawn,
                   replica, composite, shown, readCalls, reads, renders, releases>>

\* mirrored_landmarks = pose_visualizer.create_mirrored_landmarks(...)
Mirror ==
    /\ pc = "mirror"
    /\ \/ /\ mirrored_landmarks' =
                create_mirrored_landmarks(pose_results.landmark, frame.h, frame.w, cfg)
          /\ pc' = "render"
          /\ Ok("mirror")
       \/ /\ mirrored_landmarks' = mirrored_landmarks
          /\ Raise("Exception", "mirror")
    /\ UNCHANGED <<entry, cfg, video_source, windows, frame, pose_results, drawn,
                   replica, composite, shown, readCalls, reads, detections, renders,
                   releases>>

\* replica = pose_visualizer.draw_mirrored_pose(frame, mirrored_landmarks, connections)
Render ==
    /\ pc = "render"
    /\ renders' = renders + 1
    /\ \/ /\ drawn' = DrawCalls(mirrored_landmarks, PoseConnections, cfg)
          /\ replica' = draw_mirrored_pose(frame, mirrored_landmarks, PoseConnections, cfg)
          /\ pc' = "composite"
          /\ Ok("render")
       \/ /\ UNCHANGED <<drawn, replica>>
          /\ Raise("Exception", "render")
    /\ UNCHANGED <<entry, cfg, video_source, windows, frame, pose_results,
                   mirrored_landmarks, composite, shown, readCalls, reads, detections,
                   releases>>

\* composite = pose_visualizer.create_composite(frame, replica)
Composite ==
    /\ pc = "composite"
    /\ \/ /\ composite' = create_composite(frame, replica)
          /\ pc' = "show"
          /\ Ok("composite")
       \/ /\ composite' = composite
          /\ Raise("Exception", "composite")
    /\ UNCHANGED <<entry, cfg, video_source, windows, frame, pose_results,
                   mirrored_landmarks, drawn, replica, shown, readCalls, reads,
                   detections, renders, releases>>

\* cv2.imshow(window, composite) or cv2.imshow(window, frame)
Show ==
    /\ pc = "show"
    /\ \/ /\ shown' = Append(shown, [image |-> ImageToShow(pose_results, composite, frame),
                                     frame |-> frame, results |-> pose_results,
                                     read |-> reads])
          /\ windows' = "open"
          /\ pc' = "poll"
          /\ Ok("show")
       \/ /\ UNCHANGED <<shown, windows>>
          /\ Raise("Exception", "show")
    /\ UNCHANGED <<entry, cfg, video_source, frame, pose_results, mirrored_landmarks,
                   drawn, replica, composite, readCalls, reads, detections, renders,
                   releases>>

\* if cv2.waitKey(30) & 0xFF == ord('q'): break
Poll ==
    /\ pc = "poll"
    /\ \/ \E key \in Keys :
            /\ pc' = IF CancelKeyPressed(key) THEN AfterLoop(entry) ELSE "read"
            /\ exc' = exc
            /\ console' = console
            /\ event' = <<"poll", "key", key>>
       \/ Raise("Exception", "poll")
    /\ UNCHANGED <<entry, cfg, video_source, windows, frame, pose_results,
                   mirrored_landmarks, drawn, replica, composite, shown, readCalls,
                   reads, detections, renders, releases>>

\* except Exception as e: print(f"Error: {e}")
Except ==
    /\ pc = "except"
    /\ console' = Append(console, [kind |-> "Error", text |-> exc])
    /\ pc' = "finally"
    /\ event' = <<"except", "ok", -1>>
    /\ UNCHANGED <<entry, cfg, video_source, windows, frame, pose_results,
                   mirrored_landmarks, drawn, replica, composite, shown, exc, readCalls,
                   reads, detections, renders, releases>>

\* video_source.release(); cv2.destroyAllWindows()
ReleaseAll ==
    /\ video_source' = "released"
    /\ releases' = releases + 1
    /\ windows' = "closed"

\* finally: release, destroyAllWindows, print("Dance Companion closed.")
\* video_source is a local of main(): reading it before VideoSource(source)
\* returned raises UnboundLocalError out of the finally block
Finally ==
    /\ pc = "finally"
    /\ IF video_source = "unbound"
       THEN /\ pc' = "crashed"
            /\ exc' = "UnboundLocalError"
            /\ event' = <<"finally", "error", -1>>
            /\ console' = Append(console, [kind |-> "Traceback", text |-> "UnboundLocalError"])
            /\ UNCHANGED <<video_source, releases, windows>>
       ELSE /\ ReleaseAll
            /\ pc' = "exit"
            /\ exc' = exc
            /\ event' = <<"finally", "ok", -1>>
            /\ console' = Append(console, [kind |-> "Closed", text |-> "Dance Companion closed."])
    /\ UNCHANGED <<entry, cfg, frame, pose_results, mirrored_landmarks, drawn, replica,
                   composite, shown, readCalls, reads, detections, renders>>

\* app.py, after the loop: release, destroyAllWindows
Cleanup ==
    /\ pc = "cleanup"
    /\ ReleaseAll
    /\ pc' = "exit"
    /\ event' = <<"cleanup", "ok", -1>>
    /\ UNCHANGED <<entry, cfg, frame, pose_results, mirrored_landmarks, drawn, replica,
                   composite, shown, console, exc, readCalls, reads, detections, renders>>

Next ==
    \/ OpenSource
    \/ InitDetector
    \/ CreateWindow
    \/ ReadFrame
    \/ Detect
    \/ Mirror
    \/ Render
    \/ Composite
    \/ Show
    \/ Poll
    \/ Except
    \/ Finally
    \/ Cleanup

Spec == Init /\ [][Next]_vars

----------------------------------------------------------------------------
(* The PoseVisualizer alone: its three methods applied in the order the    *)
(* entry points call them, to every frame, landmark list and configuration *)
(* of the bounded input sets.                                              *)

VisualizerConfigs ==
    CliConfigs \cup { PoseVisualizerInit(<<100, 50, 0>>, <<0, 60, 255>>, 1, 2, 0) }

VisualizerInit ==
    /\ entry = "lib"
    /\ cfg \in VisualizerConfigs
    /\ pc = "mirror"
    /\ video_source = "unbound"
    /\ windows = "none"
    /\ frame \in Frames
    /\ pose_results \in { r \in DetectionResults : r.found }
    /\ mirrored_landmarks = create_mirrored_landmarks(<<>>, 0, 0, cfg)
    /\ drawn = <<>>
    /\ replica = NoImage
    /\ composite = NoImage
    /\ shown = <<>>
    /\ console = <<>>
    /\ exc = "none"
    /\ event = <<"start", "ok", -1>>
    /\ readCalls = 0
    /\ reads = 0
    /\ detections = 0
    /\ renders = 0
    /\ releases = 0

CallMirror ==
    /\ pc = "mirror"
    /\ mirrored_landmarks' =
            create_mirrored_landmarks(pose_results.landmark, frame.h, frame.w, cfg)
    /\ pc' = "render"
    /\ event' = <<"mirror", "ok", -1>>
    /\ UNCHANGED <<entry, cfg, video_source, windows, frame, pose_results, drawn,
                   replica, composite, shown, console, exc, readCalls, reads,
                   detections, renders, releases>>

CallRender ==
    /\ pc = "render"
    /\ renders' = renders + 1
    /\ drawn' = DrawCalls(mirrored_landmarks, PoseConnections, cfg)
    /\ replica' = draw_mirrored_pose(frame, mirrored_landmarks, PoseConnections, cfg)
    /\ pc' = "composite"
    /\ event' = <<"render", "ok", -1>>
    /\ UNCHANGED <<entry, cfg, video_source, windows, frame, pose_results,
                   mirrored_landmarks, composite, shown, console, exc, readCalls,
                   reads, detections, releases>>

CallComposite ==
    /\ pc = "composite"
    /\ composite' = create_composite(frame, replica)
    /\ pc' = "done"
    /\ event' = <<"composite", "ok", -1>>
    /\ UNCHANGED <<entry, cfg, video_source, windows, frame, pose_results,
                   mirrored_landmarks, drawn, replica, shown, console, exc, readCalls,
                   reads, detections, renders, releases>>

VisualizerNext ==
    \/ CallMirror
    \/ CallRender
    \/ CallComposite

VisualizerSpec == VisualizerInit /\ [][VisualizerNext]_vars

----------------------------------------------------------------------------
(* Properties *)

Running == pc \in StartupPcs \cup LoopPcs
Stopped == ~Running

\* the loop was entered: read_frame was called at least once
LoopEntered == readCalls > 0

Printed(kind, text) == \E i \in DOMAIN console : console[i] = [kind |-> kind, text |-> text]

\* VideoSource(source) raised: ValueError is raised nowhere else
OpenFailed == \E i \in DOMAIN console : console[i].text = "ValueError"

\* mirrored_landmarks holds the mirror of pose_results for frame
MirrorDone ==
    \/ pc \in { "render", "composite", "done" }
    \/ pc \in { "show", "poll" } /\ pose_results.found

\* drawn and replica hold the rendering of mirrored_landmarks
RenderDone ==
    \/ pc \in { "composite", "done" }
    \/ pc \in { "show", "poll" } /\ pose_results.found

InUnitRange(lm) == lm.x >= 0 /\ lm.x <= Den /\ lm.y >= 0 /\ lm.y <= Den

\* p is the integer part of n / Den, for n >= 0
IsIntegerPart(p, n) == p * Den <= n /\ n < (p + 1) * Den

(* C1: whenever the loop has exited and the process has ended, the source  *)
(* is released and the windows are closed, and an error raised in the loop *)
(* was caught and printed as "Error: ..." -- for both entry points.        *)
C1_ReleasedOnEveryExit ==
    (pc \in TerminalPcs /\ LoopEntered) =>
        /\ pc = "exit"
        /\ video_source = "released"
        /\ windows = "closed"
        /\ exc # "none" => Printed("Error", exc)

(* C2: when the source cannot be opened, nothing is read or detected, the  *)
(* ValueError is printed, and the shutdown path completes without raising  *)
(* a further error.  Stated for main(), whose handler prints the error;    *)
(* app.py has no handler at all and ends with the uncaught ValueError.     *)
C2_OpenFailureShutsDownCleanly ==
    (entry = "cli" /\ pc \in TerminalPcs /\ OpenFailed) =>
        /\ readCalls = 0
        /\ detections = 0
        /\ Printed("Error", "ValueError")
        /\ exc = "ValueError"
        /\ pc = "exit"
        /\ windows = "closed"

(* C3: in every finished run of the loop the number of detection calls is  *)
(* the number of successful reads and the source was released exactly      *)
(* once; with no successful read there is no detection call.               *)
C3_DetectionsEqualReadsReleasedOnce ==
    (pc \in TerminalPcs /\ LoopEntered) =>
        /\ detections = reads
        /\ releases = 1
        /\ reads = 0 => detections = 0

\* the outcomes of a step that end the loop
IsStopCause(ev) ==
    \/ ev[2] = "noframe"
    \/ ev[2] = "error"
    \/ ev[2] = "key" /\ (ev[3] % 256) = 113

(* C4: RUNNING is left exactly by a read without a frame, the cancellation *)
(* key at the poll, or an error; otherwise the poll is followed by a read; *)
(* once STOPPED, the run stays STOPPED and no read, detection, render or   *)
(* display happens.                                                        *)
C4_TwoStates ==
    [][ /\ Running => (Stopped' <=> IsStopCause(event'))
        /\ (Running /\ pc = "poll" /\ Running') => pc' = "read"
        /\ Stopped =>
            /\ Stopped'
            /\ readCalls' = readCalls
            /\ detections' = detections
            /\ renders' = renders
            /\ shown' = shown ]_vars

C4_Witness ==
    /\ Stopped
    /\ event = <<"poll", "key", 113 + 256>>
    /\ Len(shown) = reads
    /\ reads > 0

(* C5: for a keypoint in [0,1] x [0,1], the mirrored position is           *)
(* (w - pixel_x + dx, pixel_y) with pixel_x, pixel_y the integer parts of  *)
(* xn*w and yn*h; y is not mirrored and x is not clamped: it lies in       *)
(* [dx, w + dx].                                                           *)
C5_MirrorOfUnitKeypoints ==
    MirrorDone =>
        \A i \in DOMAIN pose_results.landmark :
            LET lm == pose_results.landmark[i]
                m == mirrored_landmarks[i - 1]
            IN  InUnitRange(lm) =>
                    /\ \E pixel_x \in 0 .. frame.w :
                        /\ IsIntegerPart(pixel_x, lm.x * frame.w)
                        /\ m[1] = frame.w - pixel_x + cfg.offset_x
                    /\ \E pixel_y \in 0 .. frame.h :
                        /\ IsIntegerPart(pixel_y, lm.y * frame.h)
                        /\ m[2] = pixel_y
                    /\ m[1] >= cfg.offset_x
                    /\ m[1] <= frame.w + cfg.offset_x

\* a keypoint at xn = 0 lands at column w + dx, outside the frame, and one
\* with a fractional xn*w is truncated
C5_Witness ==
    /\ MirrorDone
    /\ \E i \in DOMAIN pose_results.landmark :
        /\ pose_results.landmark[i].x = 0
        /\ mirrored_landmarks[i - 1][1] = frame.w + cfg.offset_x
    /\ \E i \in DOMAIN pose_results.landmark :
        /\ InUnitRange(pose_results.landmark[i])
        /\ (pose_results.landmark[i].x * frame.w) % Den # 0
        /\ (pose_results.landmark[i].y * frame.h) % Den # 0

(* C6 as stated: the mirrored position is (trunc(w - xn*w) + dx,           *)
(* trunc(yn*h)) for every keypoint, the truncation being applied to the    *)
(* reflected value.                                                        *)
C6_TruncationOfReflectedValue ==
    MirrorDone =>
        \A i \in DOMAIN pose_results.landmark :
            LET lm == pose_results.landmark[i]
                m == mirrored_landmarks[i - 1]
            IN  /\ m[1] = IntTrunc(frame.w * Den - lm.x * frame.w, Den) + cfg.offset_x
                /\ m[2] = IntTrunc(lm.y * frame.h, Den)

(* C6 amended: the truncation is applied to xn*w before the reflection, so *)
(* the mirrored x is trunc(w - xn*w) + dx when xn*w is an integer or xn is *)
(* outside (0,1), and one more than that when 0 < xn < 1 and xn*w is not   *)
(* an integer; the mirrored y is trunc(yn*h).                              *)
C6_TruncationBeforeReflection ==
    MirrorDone =>
        \A i \in DOMAIN pose_results.landmark :
            LET lm == pose_results.landmark[i]
                m == mirrored_landmarks[i - 1]
                fractional == (lm.x * frame.w) % Den # 0
                inside == lm.x > 0 /\ lm.x < Den
                reflected == IntTrunc(frame.w * Den - lm.x * frame.w, Den)
            IN  /\ m[1] = reflected + (IF inside /\ fractional THEN 1 ELSE 0) + cfg.offset_x
                /\ m[2] = IntTrunc(lm.y * frame.h, Den)

\* a keypoint with 0 < xn < 1 and xn*w not an integer, and one with xn < 0
C6_Witness ==
    /\ MirrorDone
    /\ \E i \in DOMAIN pose_results.landmark :
        LET lm == pose_results.landmark[i]
        IN  /\ lm.x > 0
            /\ lm.x < Den
            /\ (lm.x * frame.w) % Den # 0
            /\ mirrored_landmarks[i - 1][1] =
                    IntTrunc(frame.w * Den - lm.x * frame.w, Den) + 1 + cfg.offset_x
    /\ \E i \in DOMAIN pose_results.landmark : pose_results.landmark[i].x < 0

(* C7: the mirrored map has exactly one entry for every index of the input *)
(* list and no other entry; the empty list gives the empty map.            *)
C7_OneEntryPerIndex ==
    MirrorDone =>
        /\ DOMAIN mirrored_landmarks = { i - 1 : i \in DOMAIN pose_results.landmark }
        /\ Cardinality(DOMAIN mirrored_landmarks) = Len(pose_results.landmark)
        /\ pose_results.landmark = <<>> => DOMAIN mirrored_landmarks = {}

\* two keypoints at the same place still give two entries
C7_Witness ==
    /\ MirrorDone
    /\ Len(pose_results.landmark) >= 2
    /\ pose_results.landmark[1] = pose_results.landmark[2]
    /\ mirrored_landmarks[0] = mirrored_landmarks[1]

LineCalls == { i \in DOMAIN drawn : drawn[i].op = "line" }
CircleCalls == { i \in DOMAIN drawn : drawn[i].op = "circle" }

\* the place of a connection in the topology
PlaceOf(conn) == CHOOSE k \in DOMAIN PoseConnections : PoseConnections[k] = conn

C9_SaturatingComposite ==
    [][ (pc = "composite" /\ pc' \in { "show", "done" }) =>
            /\ frame' = frame
            /\ replica' = replica
            /\ composite'.h = frame.h
            /\ composite'.w = frame.w
            /\ \A p \in Pixels(frame.h, frame.w) : \A ch \in 1 .. 3 :
                LET sum == frame.px[p][ch] + replica.px[p][ch]
                IN  /\ sum <= 255 => composite'.px[p][ch] = sum
                    /\ sum > 255 => composite'.px[p][ch] = 255
            /\ composite' = create_composite(replica, frame)
            /\ DOMAIN mirrored_landmarks = {} =>
                /\ \A p \in Pixels(frame.h, frame.w) : replica.px[p] = <<0, 0, 0>>
                /\ composite' = frame ]_vars

\* a channel that saturates and a channel that adds up below the cap
C9_Witness ==
    /\ pc = "done"
    /\ \E p \in Pixels(frame.h, frame.w) : \E ch \in 1 .. 3 :
        /\ replica.px[p][ch] > 0
        /\ frame.px[p][ch] > 0
        /\ frame.px[p][ch] + replica.px[p][ch] > 255
        /\ composite.px[p][ch] = 255
    /\ \E p \in Pixels(frame.h, frame.w) : \E ch \in 1 .. 3 :
        /\ replica.px[p][ch] > 0
        /\ frame.px[p][ch] > 0
        /\ composite.px[p][ch] = frame.px[p][ch] + replica.px[p][ch]

\* what the loop is to display for a frame and a detection result
Expected(img, results) ==
    IF results.found
    THEN create_composite(img,
            draw_mirrored_pose(img,
                create_mirrored_landmarks(results.landmark, img.h, img.w, cfg),
                PoseConnections, cfg))
    ELSE img

\* the order of the steps of one iteration
StepOrder ==
    { <<"read", "detect">>, <<"detect", "mirror">>, <<"detect", "show">>,
      <<"mirror", "render">>, <<"render", "composite">>, <<"composite", "show">>,
      <<"show", "poll">>, <<"poll", "read">> }

\* every display so far shows the frame of its read, composited iff keypoints were found
DisplaysMatchReads ==
    \A i \in DOMAIN shown :
        /\ shown[i].read = i
        /\ shown[i].image = Expected(shown[i].frame, shown[i].results)

\* the steps follow the fixed order, a display happens only in the display
\* step, and the key is examined only at the poll after the display
StepsInOrder ==
    /\ (pc \in LoopPcs /\ pc' \in LoopPcs /\ pc' # pc) => <<pc, pc'>> \in StepOrder
    /\ (pc = "detect" /\ pc' = "mirror") => pose_results'.found
    /\ (pc = "detect" /\ pc' = "show") => ~pose_results'.found
    /\ shown' # shown => (pc = "show" /\ pc' = "poll" /\ Len(shown') = Len(shown) + 1)
    /\ reads' # reads => (pc = "read" /\ Len(shown) = reads)
    /\ event'[2] = "key" => (pc = "poll" /\ Len(shown) = reads)

(* C10 as stated: once the iteration of a frame is over, that frame has    *)
(* been displayed exactly once (so the displays number the successful      *)
(* reads), as the composite or the raw frame.  Stated for main(), where    *)
(* every error is caught and the shutdown path runs.                       *)
C10_EveryFrameDisplayedOnce ==
    (entry = "cli" /\ pc \notin { "detect", "mirror", "render", "composite", "show" }) =>
        /\ Len(shown) = reads
        /\ DisplaysMatchReads

(* C10 amended: the steps of an iteration run in the fixed order and the   *)
(* iteration completes before the next read; a successfully read frame is  *)
(* displayed at most once, and exactly once unless a step of its iteration *)
(* raises an error before the display is done (the loop then stops); it is *)
(* displayed as the composite if keypoints were found and raw otherwise;   *)
(* the key is examined only at the poll after the display.                 *)
C10_FrameDisplayedOnceUnlessError ==
    /\ [][StepsInOrder]_vars
    /\ [](/\ Len(shown) <= reads
          /\ Len(shown) >= reads - 1
          /\ pc \in { "read", "poll" } => Len(shown) = reads
          /\ (Len(shown) < reads /\ pc \notin LoopPcs) => exc # "none"
          /\ (pc \in TerminalPcs /\ exc = "none") => Len(shown) = reads
          /\ DisplaysMatchReads)

\* one frame shown as a composite that differs from it, the next shown raw,
\* and a cancel request seen at the poll after the second display
C10_Witness ==
    /\ Len(shown) = 2
    /\ shown[1].results.found
    /\ shown[1].image # shown[1].frame
    /\ ~shown[2].results.found
    /\ shown[2].image = shown[2].frame
    /\ event = <<"poll", "key", 113>>
    /\ Stopped

====
